---- MODULE Spec2Model ----
(***************************************************************************)
(* A model of EyelinkWrapper.py: the wrapper functions an experiment       *)
(* script calls on the EyeLink tracker (pylink), the tracker's link data   *)
(* they read, and what each call returns, prints and sends to the tracker. *)
(* The module is Python 2 (print statements), so int / int is floor        *)
(* division.                                                               *)
(***************************************************************************)
EXTENDS Integers, Sequences, FiniteSets, TLC

VARIABLES
    connected,     \* the EyeLink object holds an open link (pylink.EyeLink(..) .. el.close())
    recording,     \* the tracker records (startRecording .. stopRecording)
    fileOpen,      \* an EDF data file is open on the host (openDataFile .. closeDataFile)
    graphics,      \* the calibration graphics are open (openGraphicsEx .. closeGraphics)
    eyeAvail,      \* what el.eyeAvailable() reports
    newestSample,  \* what el.getNewestSample() reports
    linkQueue,     \* the link's pending data items, oldest first (el.getNextData())
    edfDir,        \* ./EDF exists on the display computer
    op,            \* the wrapper function that ran last ("idle": its result has been consumed)
    args,          \* its arguments
    locals,        \* what it read from the tracker and the system
    calls,         \* the calls it made on the tracker, pylink and the os, in order
    printed,       \* the lines it printed
    ret            \* how it ended: a returned value or a raised exception

vars == <<connected, recording, fileOpen, graphics, eyeAvail, newestSample,
          linkQueue, edfDir, op, args, locals, calls, printed, ret>>

tracker == <<connected, recording, fileOpen, graphics, eyeAvail, newestSample,
             linkQueue, edfDir>>

-----------------------------------------------------------------------------
(* Bounds of the model *)

MaxDisp == 2       \* display widths and heights are 1..MaxDisp, raw gaze 0..MaxDisp
MaxFix == 2        \* FixLen is 0..MaxFix
MaxQueue == 1      \* pending link items
MaxName == 9       \* characters before and after the extension of an EDF name

-----------------------------------------------------------------------------
(* Constants of the program and of pylink *)

RIGHT_EYE == 1
LEFT_EYE == 0
BINOCULAR == 2
NO_EYE == -1
MISSING_DATA == -32768
STARTBLINK == 3
ENDBLINK == 4
NO_DATA == 0

-----------------------------------------------------------------------------
(* Python values *)

PyNone == [t |-> "None", v |-> 0]
Num(n) == [t |-> "num", v |-> n]

NoSample == [t |-> "None", eye |-> NO_EYE, gaze |-> <<0, 0>>, pupil |-> 0]
Sample(e, g, p) == [t |-> "Sample", eye |-> e, gaze |-> g, pupil |-> p]

NoRet == [kind |-> "none", exc |-> "", x |-> 0, y |-> 0, hsmvd |-> FALSE,
          pupilSize |-> PyNone, val |-> PyNone]
Dict(gx, gy, h, p) == [NoRet EXCEPT !.kind = "dict", !.x = gx, !.y = gy,
                                    !.hsmvd = h, !.pupilSize = p]
Value(v) == [NoRet EXCEPT !.kind = "value", !.val = v]
Raise(e) == [NoRet EXCEPT !.kind = "raise", !.exc = e]

NoArgs == [none |-> TRUE]
NoLocals == [none |-> TRUE]

-----------------------------------------------------------------------------
(* Input sets *)

Coords == 0..MaxDisp
RawCoords == Coords \cup {MISSING_DATA}
DispSizes == (1..MaxDisp) \X (1..MaxDisp)
TargetLocs == {<<0, 0>>, <<1, -1>>}
FixLens == 0..MaxFix
PixPerDegs == {PyNone, Num(2)}
Fallbacks == {PyNone, Num(-1)}
Pupils == {0, 1}
Events == {STARTBLINK, ENDBLINK}
EyeCodes == {NO_EYE, LEFT_EYE, RIGHT_EYE, BINOCULAR}
Samples == {Sample(e, <<gx, gy>>, p) :
               e \in {LEFT_EYE, RIGHT_EYE}, gx \in RawCoords, gy \in RawCoords, p \in Pupils}

-----------------------------------------------------------------------------
(* EyelinkGetGaze *)

\* el.getNextData(): the code of the oldest pending item, which it removes; 0 when
\* nothing is pending
getNextDataCode(q) == IF q = <<>> THEN NO_DATA ELSE Head(q)
getNextDataRest(q) == IF q = <<>> THEN q ELSE Tail(q)

\* int / int in Python 2
FloorDiv2(n) == n \div 2

\* the two-branch conversions of lines 476-483
ConvertX(x, xhalf) == IF x >= xhalf THEN x - xhalf ELSE (xhalf - x) * (-1)
ConvertY(y, yhalf) == IF y >= yhalf THEN (y - yhalf) * (-1) ELSE yhalf - y

\* np_sum((a-b)**2)
SumSq(a, b) == (a[1] - b[1]) * (a[1] - b[1]) + (a[2] - b[2]) * (a[2] - b[2])

\* np_sqrt of a non-negative integer: its integer part, and whether it is exact
ISqrt(n) == CHOOSE r \in 0..n : r * r <= n /\ n < (r + 1) * (r + 1)
np_sqrt(n) == [fl |-> ISqrt(n), exact |-> ISqrt(n) * ISqrt(n) = n]

\* dist > k for dist = sqrt(n) and an integer k >= 0
SqrtGe(d, k) == d.fl >= k
SqrtGt(d, k) == d.fl > k \/ (d.fl = k /\ ~d.exact)

\* lines 493-496: dist / PixPerDeg > FixLen, with PixPerDeg > 0; dividing the
\* distance by p and comparing with f is comparing the distance with f * p
HasMoved(dist, PixPerDeg, FixLen) ==
    IF PixPerDeg.t # "None"
    THEN SqrtGt(dist, FixLen * PixPerDeg.v)
    ELSE SqrtGt(dist, FixLen)

\* lines 434-448: which eye's data is read; "binocular" and "unknown" end the call
EyeBranch(eye, sample) ==
    IF eye = LEFT_EYE /\ sample.eye = LEFT_EYE THEN "left"
    ELSE IF eye = RIGHT_EYE /\ sample.eye = RIGHT_EYE THEN "right"
    ELSE IF eye = BINOCULAR THEN "binocular"
    ELSE "unknown"

\* the el.eyeAvailable() calls of lines 434-444
EyeCalls(eye, sample) ==
    IF EyeBranch(eye, sample) = "left" THEN <<"eyeAvailable">>
    ELSE IF EyeBranch(eye, sample) = "right" THEN <<"eyeAvailable", "eyeAvailable">>
    ELSE <<"eyeAvailable", "eyeAvailable", "eyeAvailable">>

\* lines 453-461
BlinkedNoEvent(event, pupil) == pupil = 0
Blinked(event, pupil) == event = STARTBLINK \/ pupil = 0

BlinkLine(event, pupil) ==
    IF event = STARTBLINK THEN "Subject is definitely blinking"
    ELSE IF pupil = 0 THEN "Subject is probably blinking"
    ELSE "Missing data but no blink?"

\* lines 451-469: a raw gaze with the missing-data marker
MissingResult(a, sample, event) ==
    IF Blinked(event, sample.pupil) /\ ~a.IgnoreBlinks
    THEN Dict(sample.gaze[1], sample.gaze[2], TRUE, Num(sample.pupil))
    ELSE IF Blinked(event, sample.pupil) /\ a.IgnoreBlinks
    THEN Dict(a.targetLoc[1], a.targetLoc[2], FALSE, Num(sample.pupil))
    ELSE Dict(sample.gaze[1], sample.gaze[2], TRUE, Num(sample.pupil))

\* lines 471-496: a raw gaze on the display
GazeOut(a, sample) ==
    <<ConvertX(sample.gaze[1], FloorDiv2(a.dispsize[1])),
      ConvertY(sample.gaze[2], FloorDiv2(a.dispsize[2]))>>

ValidResult(a, sample) ==
    LET gaze == GazeOut(a, sample)
        dist == np_sqrt(SumSq(a.targetLoc, gaze))
    IN  Dict(gaze[1], gaze[2], HasMoved(dist, a.PixPerDeg, a.FixLen), Num(sample.pupil))

\* lines 444-446
BinocularResult(a) == Value(PyNone)

\* lines 432-503: the tracker is connected
ConnectedResultNone(a, sample, event, eye) ==
    IF sample.t = "None" THEN Value(PyNone)
    ELSE IF EyeBranch(eye, sample) = "binocular" THEN BinocularResult(a)
    ELSE IF EyeBranch(eye, sample) = "unknown" THEN Raise("Exception")
    ELSE IF MISSING_DATA \in {sample.gaze[1], sample.gaze[2]}
    THEN MissingResult(a, sample, event)
    ELSE ValidResult(a, sample)

ConnectedResult(a, sample, event, eye) ==
    IF sample.t = "None" THEN Value(a.OversamplingBehavior)
    ELSE IF EyeBranch(eye, sample) = "binocular" THEN BinocularResult(a)
    ELSE IF EyeBranch(eye, sample) = "unknown" THEN Raise("Exception")
    ELSE IF MISSING_DATA \in {sample.gaze[1], sample.gaze[2]}
    THEN MissingResult(a, sample, event)
    ELSE ValidResult(a, sample)

\* the lines printed on the way (445, 454-460)
ConnectedPrints(sample, event, eye) ==
    IF sample.t = "None" THEN <<>>
    ELSE IF EyeBranch(eye, sample) = "binocular" THEN <<"Binocular mode not yet implemented">>
    ELSE IF EyeBranch(eye, sample) = "unknown" THEN <<>>
    ELSE IF MISSING_DATA \in {sample.gaze[1], sample.gaze[2]}
    THEN <<BlinkLine(event, sample.pupil)>>
    ELSE <<>>

\* lines 428-448: the calls on the tracker handle
ConnectedCalls(sample, eye) ==
    <<"getNewestSample", "getNextData">>
        \o (IF sample.t = "None" THEN <<>> ELSE EyeCalls(eye, sample))

\* lines 505-507
DisconnectedCentre(a) == Dict(0, 0, FALSE, PyNone)
DisconnectedResult(a) == Dict(a.targetLoc[1], a.targetLoc[2], FALSE, PyNone)

GazeArgs == [targetLoc : TargetLocs, FixLen : FixLens, dispsize : DispSizes,
             isET : BOOLEAN, PixPerDeg : PixPerDegs, IgnoreBlinks : BOOLEAN,
             OversamplingBehavior : Fallbacks]

\* what a call leaves of the link queue
QueueUntouched(a, q) == q
QueueAfter(a, q) == IF a.isET THEN getNextDataRest(q) ELSE q

EyelinkGetGaze ==
    /\ op = "idle"
    /\ \E a \in GazeArgs :
        /\ a.isET => connected
        /\ op' = "EyelinkGetGaze"
        /\ args' = a
        /\ IF a.isET
           THEN LET sample == newestSample
                    event == getNextDataCode(linkQueue)
                IN  /\ locals' = [sample |-> sample, event |-> event, eye |-> eyeAvail]
                    /\ ret' = ConnectedResult(a, sample, event, eyeAvail)
                    /\ printed' = ConnectedPrints(sample, event, eyeAvail)
                    /\ calls' = ConnectedCalls(sample, eyeAvail)
           ELSE /\ locals' = NoLocals
                /\ ret' = DisconnectedResult(a)
                /\ printed' = <<>>
                /\ calls' = <<>>
        /\ linkQueue' = QueueAfter(a, linkQueue)
    /\ UNCHANGED <<connected, recording, fileOpen, graphics, eyeAvail, newestSample, edfDir>>

-----------------------------------------------------------------------------
(* The tracker while it records: samples and events arrive over the link *)

TrackerSample ==
    /\ op = "idle" /\ connected /\ recording
    /\ \E s \in Samples \cup {NoSample} : newestSample' = s
    /\ newestSample' # newestSample
    /\ UNCHANGED <<connected, recording, fileOpen, graphics, eyeAvail, linkQueue, edfDir,
                   op, args, locals, calls, printed, ret>>

TrackerEvent ==
    /\ op = "idle" /\ connected /\ recording
    /\ Len(linkQueue) < MaxQueue
    /\ \E e \in Events : linkQueue' = Append(linkQueue, e)
    /\ UNCHANGED <<connected, recording, fileOpen, graphics, eyeAvail, newestSample, edfDir,
                   op, args, locals, calls, printed, ret>>

\* the calling script takes the result and goes on
Continue ==
    /\ op # "idle"
    /\ ret.kind # "raise"
    /\ op' = "idle" /\ args' = NoArgs /\ locals' = NoLocals
    /\ calls' = <<>> /\ printed' = <<>> /\ ret' = NoRet
    /\ UNCHANGED tracker

-----------------------------------------------------------------------------
(* EDF file names: strings are sequences of characters *)

DotEdf == <<".", "e", "d", "f">>
DotEdfUpper == <<".", "E", "D", "F">>
Rep(n) == [i \in 1..n |-> "a"]
Names == {Rep(i) \o e \o Rep(j) : i \in 0..MaxName, j \in 0..MaxName,
                                   e \in {<<>>, DotEdf, DotEdfUpper}}
StopNames == {Rep(1), Rep(1) \o DotEdf}

\* str.lower()
LowerChar(c) == CASE c = "E" -> "e" [] c = "D" -> "d" [] c = "F" -> "f" [] OTHER -> c
Lower(s) == [i \in 1..Len(s) |-> LowerChar(s[i])]

\* sub in s
Contains(sub, s) ==
    \E i \in 1..(Len(s) - Len(sub) + 1) : SubSeq(s, i, i + Len(sub) - 1) = sub

NameLimit == 8
NameLimitWithExt == 12

\* lines 195-204 of EyelinkStart: whether the name is refused, and the name that
\* goes to openDataFile
NameRefused(Name) ==
    IF ~Contains(DotEdf, Lower(Name))
    THEN Len(Name) > NameLimit
    ELSE Len(Name) > NameLimitWithExt

NameOpened(Name) ==
    IF ~Contains(DotEdf, Lower(Name)) THEN Name \o DotEdf ELSE Name

-----------------------------------------------------------------------------
(* EyelinkStart *)

ELversions == {1, 2, 3}
SoftVers == {3, 4}

\* lines 244-249: ELsoftVer is read from the version string of an EyeLink CL only
ELsoftVer(ELversion, soft) == IF ELversion = 3 THEN soft ELSE 0

\* lines 207-319: the calls of an accepted start, commands by their keyword
StartCalls(dummy, ELversion, soft) ==
    <<IF dummy THEN "EyeLink(None)" ELSE "EyeLink(100.1.1.1)",
      "openDataFile", "sendCommand add_file_preamble_text",
      "EyeLinkCoreGraphicsPsychoPy", "openGraphicsEx", "setOfflineMode",
      "flushGetkeyQueue", "sendCommand sample_rate 1000",
      "sendCommand screen_pixel_coords", "sendMessage DISPLAY_COORDS",
      "getTrackerVersion">>
    \o (IF ELversion = 3 THEN <<"getTrackerVersionString">> ELSE <<>>)
    \o (IF ELversion >= 2 THEN <<"sendCommand select_parser_configuration 0">> ELSE <<>>)
    \o (IF ELversion = 2
        THEN <<"sendCommand scene_camera_gazemap = NO">>
        ELSE <<"sendCommand saccade_velocity_threshold = 35",
               "sendCommand saccade_acceleration_threshold = 9500">>)
    \o <<"sendCommand file_event_filter">>
    \o (IF ELsoftVer(ELversion, soft) >= 4
        THEN <<"sendCommand file_sample_data with HTARGET">>
        ELSE <<"sendCommand file_sample_data">>)
    \o <<"sendCommand link_event_filter">>
    \o (IF ELsoftVer(ELversion, soft) >= 4
        THEN <<"sendCommand link_sample_data with HTARGET">>
        ELSE <<"sendCommand link_sample_data">>)
    \o <<"sendCommand calibration_type = HV13", "doTrackerSetup",
         "sendMessage SETUP_FINISHED", "setOfflineMode", "msecDelay",
         "beginRealTimeMode", "startRecording",
         "sendCommand write_ioport", "sendCommand create_button x8",
         "sendCommand input_data_ports", "sendCommand input_data_masks",
         "sendMessage >EndOfEyeLinkStart">>

TooLongLine == "EDF filename too long! (1-8 characters/letters)"

EyelinkStart ==
    /\ op = "idle" /\ ~connected
    /\ \E Name \in Names, dummy \in BOOLEAN, eye \in EyeCodes,
          ELversion \in ELversions, soft \in SoftVers :
        /\ op' = "EyelinkStart"
        /\ args' = [Name |-> Name, dummy |-> dummy]
        /\ IF NameRefused(Name)
           THEN /\ ret' = Raise("SystemExit")
                /\ printed' = <<". ", TooLongLine>>
                /\ calls' = <<>>
                /\ locals' = [opened |-> <<>>, ELversion |-> 0, ELsoftVer |-> 0]
                /\ UNCHANGED tracker
           ELSE /\ ret' = Value(PyNone)
                /\ printed' = [i \in 1..13 |-> ". "]
                /\ calls' = StartCalls(dummy, ELversion, soft)
                /\ locals' = [opened |-> NameOpened(Name), ELversion |-> ELversion,
                              ELsoftVer |-> ELsoftVer(ELversion, soft)]
                /\ connected' = TRUE
                /\ fileOpen' = TRUE
                /\ graphics' = TRUE
                /\ recording' = TRUE
                /\ eyeAvail' = eye
                /\ newestSample' = NoSample
                /\ linkQueue' = <<>>
                /\ UNCHANGED edfDir

-----------------------------------------------------------------------------
(* EyelinkStop *)

\* line 340-341
StopName(Name) == IF ~Contains(DotEdf, Lower(Name)) THEN Name \o DotEdf ELSE Name

\* lines 343-353
StopHead == <<"endRealTimeMode", "msecDelay", "stopRecording", "setOfflineMode",
              "msecDelay", "closeDataFile">>

\* lines 355-362: the exceptions the transfer's handler catches
Caught == {"RuntimeError"}

\* lines 355-365: the transfer and what follows it. mkdirFails: os.mkdir raises
\* OSError; receiveFails: receiveDataFile raises RuntimeError
StopTransfer(exists, mkdirFails, receiveFails) ==
    LET raised == IF ~exists /\ mkdirFails THEN "OSError"
                  ELSE IF receiveFails THEN "RuntimeError"
                  ELSE ""
        tried == <<"path.exists">>
                 \o (IF ~exists THEN <<"mkdir">> ELSE <<>>)
                 \o (IF ~exists /\ mkdirFails THEN <<>> ELSE <<"receiveDataFile">>)
    IN  IF raised = ""
        THEN [calls |-> tried \o <<"close", "closeGraphics">>,
              printed |-> <<"Wait for EDF to be copied over LAN...",
                            "Done. EDF has been copied to ./EDF folder.">>,
              ret |-> Value(PyNone), closed |-> TRUE]
        ELSE IF raised \in Caught
        THEN [calls |-> tried \o <<"close", "closeGraphics">>,
              printed |-> <<"Wait for EDF to be copied over LAN...",
                            "Error while pulling EDF file. Try to find it on Eyelink host..">>,
              ret |-> Value(PyNone), closed |-> TRUE]
        ELSE [calls |-> tried,
              printed |-> <<"Wait for EDF to be copied over LAN...">>,
              ret |-> Raise(raised), closed |-> FALSE]

EyelinkStop ==
    /\ op = "idle" /\ connected
    /\ \E Name \in StopNames, mkdirFails \in BOOLEAN, receiveFails \in BOOLEAN :
        LET t == StopTransfer(edfDir, mkdirFails, receiveFails)
        IN  /\ op' = "EyelinkStop"
            /\ args' = [Name |-> Name]
            /\ locals' = [Name |-> StopName(Name), exists |-> edfDir,
                          mkdirFails |-> ~edfDir /\ mkdirFails,
                          receiveFails |-> ~(~edfDir /\ mkdirFails) /\ receiveFails]
            /\ calls' = StopHead \o t.calls
            /\ printed' = t.printed
            /\ ret' = t.ret
            /\ recording' = FALSE
            /\ fileOpen' = FALSE
            /\ edfDir' = (edfDir \/ ~mkdirFails)
            /\ connected' = ~t.closed
            /\ graphics' = ~t.closed
            /\ newestSample' = IF t.closed THEN NoSample ELSE newestSample
            /\ linkQueue' = IF t.closed THEN <<>> ELSE linkQueue
            /\ UNCHANGED eyeAvail

-----------------------------------------------------------------------------
(* AvoidWrongTriggers *)

\* os.system's status of the ping: 0 when the host answers
PingStatus(platform, hostUp) ==
    IF hostUp THEN {0}
    ELSE IF platform = "Windows" THEN {1} ELSE {256, 512}

PingCommand(platform) ==
    IF platform = "Windows" THEN "ping -n 1 100.1.1.1" ELSE "ping -c 1 100.1.1.1"

\* line 87
PingRaises(r) == r # 0

AvoidWrongTriggers ==
    /\ op = "idle" /\ ~connected
    /\ \E platform \in {"Windows", "Linux"}, hostUp \in BOOLEAN :
        \E r \in PingStatus(platform, hostUp) :
            /\ op' = "AvoidWrongTriggers"
            /\ args' = NoArgs
            /\ locals' = [platform |-> platform, hostUp |-> hostUp, r |-> r]
            /\ calls' = <<PingCommand(platform)>>
            /\ IF PingRaises(r)
               THEN /\ printed' = <<"Pinging Eyelink to check if connected and powered...",
                                    "Eyelink host PC is turned on. ...">>
                    /\ ret' = Raise("SystemExit")
               ELSE /\ printed' = <<"Pinging Eyelink to check if connected and powered...">>
                    /\ ret' = Value(PyNone)
    /\ UNCHANGED tracker

-----------------------------------------------------------------------------
(* EyelinkCalibrate and EyelinkDriftCheck *)

\* the tracker handle, as EyelinkCalibrate returns it
El == [t |-> "el", v |-> 0]

CalTargets == {<<1920, 1080>>, <<1, 1>>}

\* lines 113-125: the calls of EyelinkCalibrate
CalibrateStepsNoRestart ==
    <<"sendMessage STOP_REC_4_RECAL", "msecDelay", "stopRecording", "doTrackerSetup",
      "sendCommand clear_screen 0", "sendCommand set_idle_mode", "msecDelay">>
CalibrateSteps ==
    <<"sendMessage STOP_REC_4_RECAL", "msecDelay", "stopRecording", "doTrackerSetup",
      "sendCommand clear_screen 0", "sendCommand set_idle_mode", "msecDelay",
      "startRecording">>

\* lines 145-156: the calls in the try block of EyelinkDriftCheck
DriftSteps ==
    <<"sendMessage STOP_REC_4_DRIFTCHECK", "msecDelay", "stopRecording", "doDriftCorrect",
      "sendCommand clear_screen 0", "sendCommand set_idle_mode", "msecDelay",
      "startRecording">>

\* the calls made and the calls completed when the failAt-th call raises
\* (failAt = 0: none raises)
Made(steps, failAt) == IF failAt = 0 THEN steps ELSE SubSeq(steps, 1, failAt)
Completed(steps, failAt) == IF failAt = 0 THEN steps ELSE SubSeq(steps, 1, failAt - 1)

\* the tracker's recording state after the completed calls
RECURSIVE RecordingAfter(_, _)
RecordingAfter(rec, done) ==
    IF done = <<>> THEN rec
    ELSE RecordingAfter(IF Head(done) = "startRecording" THEN TRUE
                        ELSE IF Head(done) = "stopRecording" THEN FALSE
                        ELSE rec,
                        Tail(done))

\* lines 113-126
CalibrateRun(failAt) ==
    [made |-> Made(CalibrateSteps, failAt),
     done |-> Completed(CalibrateSteps, failAt),
     ret |-> IF failAt = 0 THEN Value(El) ELSE Raise("RuntimeError")]

\* lines 144-159: a call that raises in the try block hands over to
\* EyelinkCalibrate, whatever it raised
DriftCheckRun(failAt, calFailAt) ==
    IF failAt = 0
    THEN [made |-> DriftSteps, done |-> DriftSteps, ret |-> Value(Num(0))]
    ELSE LET c == CalibrateRun(calFailAt)
         IN  [made |-> Made(DriftSteps, failAt) \o c.made,
              done |-> Completed(DriftSteps, failAt) \o c.done,
              ret |-> c.ret]

EyelinkCalibrate ==
    /\ op = "idle" /\ connected
    /\ \E targetloc \in CalTargets, failAt \in 0..Len(CalibrateSteps) :
        LET r == CalibrateRun(failAt)
        IN  /\ op' = "EyelinkCalibrate"
            /\ args' = [targetloc |-> targetloc]
            /\ locals' = [failAt |-> failAt, calFailAt |-> 0, wasRecording |-> recording]
            /\ calls' = r.made
            /\ printed' = <<>>
            /\ ret' = r.ret
            /\ recording' = RecordingAfter(recording, r.done)
    /\ UNCHANGED <<connected, fileOpen, graphics, eyeAvail, newestSample, linkQueue, edfDir>>

EyelinkDriftCheck ==
    /\ op = "idle" /\ connected
    /\ \E targetloc \in CalTargets, failAt \in 0..Len(DriftSteps),
          calFailAt \in 0..Len(CalibrateSteps) :
        LET r == DriftCheckRun(failAt, calFailAt)
        IN  /\ failAt = 0 => calFailAt = 0
            /\ op' = "EyelinkDriftCheck"
            /\ args' = [targetloc |-> targetloc]
            /\ locals' = [failAt |-> failAt, calFailAt |-> calFailAt,
                          wasRecording |-> recording]
            /\ calls' = r.made
            /\ printed' = <<>>
            /\ ret' = r.ret
            /\ recording' = RecordingAfter(recording, r.done)
    /\ UNCHANGED <<connected, fileOpen, graphics, eyeAvail, newestSample, linkQueue, edfDir>>

-----------------------------------------------------------------------------
(* The specification *)

Init ==
    /\ connected = FALSE /\ recording = FALSE /\ fileOpen = FALSE /\ graphics = FALSE
    /\ eyeAvail = NO_EYE
    /\ newestSample = NoSample
    /\ linkQueue = <<>>
    /\ edfDir \in BOOLEAN
    /\ op = "idle" /\ args = NoArgs /\ locals = NoLocals
    /\ calls = <<>> /\ printed = <<>> /\ ret = NoRet

Next ==
    \/ EyelinkGetGaze
    \/ TrackerSample
    \/ TrackerEvent
    \/ Continue
    \/ EyelinkStart
    \/ EyelinkStop
    \/ AvoidWrongTriggers
    \/ EyelinkCalibrate
    \/ EyelinkDriftCheck

Spec == Init /\ [][Next]_vars

-----------------------------------------------------------------------------
(* Properties of EyelinkGetGaze *)

GazeCall == op = "EyelinkGetGaze"

\* a connected call that read a left- or right-eye sample
EyeRead ==
    /\ GazeCall /\ args.isET
    /\ locals.sample.t = "Sample"
    /\ locals.eye \in {LEFT_EYE, RIGHT_EYE}
    /\ locals.eye = locals.sample.eye

RawMissing == MISSING_DATA \in {locals.sample.gaze[1], locals.sample.gaze[2]}

\* FixLen in pixels: the distance divided by PixPerDeg exceeds FixLen when the
\* distance exceeds FixLen * PixPerDeg
FixLenPx == IF args.PixPerDeg.t = "None" THEN args.FixLen ELSE args.FixLen * args.PixPerDeg.v

SqDistToTarget ==
    (ret.x - args.targetLoc[1]) * (ret.x - args.targetLoc[1])
        + (ret.y - args.targetLoc[2]) * (ret.y - args.targetLoc[2])

\* C1: for a left- or right-eye sample without the missing-data marker, hsmvd is
\* true exactly when the distance between the returned gaze and targetLoc,
\* divided by PixPerDeg when that is given, is strictly greater than FixLen
C1_HsmvdIffBeyondFixLen ==
    (EyeRead /\ ~RawMissing) =>
        /\ ret.kind = "dict"
        /\ ret.hsmvd <=> (SqDistToTarget > FixLenPx * FixLenPx)

\* a gaze exactly FixLen degrees from the target: not moved
C1_Witness ==
    /\ EyeRead /\ ~RawMissing
    /\ args.PixPerDeg.t = "num" /\ args.FixLen > 0
    /\ SqDistToTarget = FixLenPx * FixLenPx
    /\ ~ret.hsmvd

\* C2: x_out = x - width/2 and y_out = height/2 - y with the exact halves, for
\* every display size, even or odd
C2_ExactHalves ==
    (EyeRead /\ ~RawMissing) =>
        /\ 2 * ret.x = 2 * locals.sample.gaze[1] - args.dispsize[1]
        /\ 2 * ret.y = args.dispsize[2] - 2 * locals.sample.gaze[2]

C4_BinocularRaises ==
    (GazeCall /\ args.isET /\ locals.sample.t = "Sample" /\ locals.eye = BINOCULAR) =>
        ret.kind = "raise"

GazeStep == op = "idle" /\ op' = "EyelinkGetGaze"

-----------------------------------------------------------------------------
(* Properties of EyelinkStart, EyelinkStop and AvoidWrongTriggers *)

\* the name without its '.edf' extension
PreExtension(Name) ==
    IF Len(Name) >= 4 /\ Lower(SubSeq(Name, Len(Name) - 3, Len(Name))) = DotEdf
    THEN SubSeq(Name, 1, Len(Name) - 4)
    ELSE Name

\* C8: a name whose pre-extension part is longer than 8 characters raises
\* SystemExit before any tracker call; an accepted name opens its pre-extension
\* part, of at most 8 characters, followed by '.edf'
C8_NameOfAtMostEight ==
    op = "EyelinkStart" =>
        /\ Len(PreExtension(args.Name)) > NameLimit =>
               (ret = Raise("SystemExit") /\ calls = <<>>)
        /\ ret.kind # "raise" =>
               /\ Len(PreExtension(args.Name)) <= NameLimit
               /\ Lower(locals.opened) = Lower(PreExtension(args.Name)) \o DotEdf

\* the place of a call in the calls made, 0 when it was not made
Pos(c) == IF \E i \in 1..Len(calls) : calls[i] = c
          THEN CHOOSE i \in 1..Len(calls) : calls[i] = c
          ELSE 0

\* C9: stop recording, set offline, close the data file, then the transfer;
\* when the transfer fails, in mkdir or in receiveDataFile, the failure is
\* reported and the connection and the graphics are closed all the same
C9_BestEffortTransfer ==
    op = "EyelinkStop" =>
        /\ 0 < Pos("stopRecording")
        /\ Pos("stopRecording") < Pos("setOfflineMode")
        /\ Pos("setOfflineMode") < Pos("closeDataFile")
        /\ Pos("closeDataFile") < Pos("path.exists")
        /\ (locals.mkdirFails \/ locals.receiveFails) =>
               /\ ret.kind = "value"
               /\ Len(printed) = 2
               /\ ~connected /\ ~graphics
               /\ Pos("close") > 0 /\ Pos("closeGraphics") > Pos("close")

\* C10: SystemExit exactly when the host answers the ping (status 0)
C10_RaisesWhenHostAnswers ==
    op = "AvoidWrongTriggers" =>
        /\ (ret = Raise("SystemExit")) <=> (locals.r = 0)
        /\ (ret = Raise("SystemExit")) <=> locals.hostUp

-----------------------------------------------------------------------------
(* Properties of EyelinkCalibrate and EyelinkDriftCheck *)

Recalibration == op \in {"EyelinkCalibrate", "EyelinkDriftCheck"}

\* the place of the last call c among the calls made, 0 when it was not made
LastPos(c) == IF \E i \in 1..Len(calls) : calls[i] = c
              THEN CHOOSE i \in 1..Len(calls) :
                       calls[i] = c /\ \A j \in (i + 1)..Len(calls) : calls[j] # c
              ELSE 0

\* the places of the calls that enter the setup or drift-correct screen
UiPlaces == {i \in 1..Len(calls) : calls[i] \in {"doTrackerSetup", "doDriftCorrect"}}

\* C11: from a recording tracker, every EyelinkCalibrate or EyelinkDriftCheck
\* call that returns normally leaves the tracker recording, also a drift check
\* whose own steps raised: recording was stopped before each setup or
\* drift-correct screen, and startRecording is the last change of the
\* recording state; so between calls a connected tracker records
C11_RecalibrationKeepsRecording ==
    /\ (op = "idle" /\ connected) => recording
    /\ (Recalibration /\ ret.kind # "raise") =>
           /\ locals.wasRecording
           /\ recording
           /\ UiPlaces # {}
           /\ \A i \in UiPlaces :
                  \E j \in 1..(i - 1) :
                      /\ calls[j] = "stopRecording"
                      /\ \A k \in (j + 1)..(i - 1) : calls[k] # "startRecording"
           /\ \A i \in UiPlaces : i < LastPos("startRecording")
           /\ LastPos("stopRecording") < LastPos("startRecording")

\* a drift check whose drift correction raised and which the full calibration
\* brought back to recording
C11_Witness ==
    /\ op = "EyelinkDriftCheck"
    /\ locals.wasRecording
    /\ locals.failAt = 4 /\ locals.calFailAt = 0
    /\ ret = Value(El)
    /\ LastPos("doTrackerSetup") > LastPos("doDriftCorrect")
    /\ recording

====
